---- MODULE Spec2Model ----
(***************************************************************************)
(* Model of the image gallery application (src/app.py): users, sessions,   *)
(* image rows, the upload directory and the request handlers.  Text is     *)
(* modelled as sequences of one-character strings so that strip, split,    *)
(* join, lower, rsplit and SQL LIKE are computed character by character.   *)
(***************************************************************************)
EXTENDS Integers, Sequences, FiniteSets, TLC

----------------------------------------------------------------------------
(* Bounds of the model *)

MaxUsers  == 2      \* rows the users table may receive
MaxImages == 2      \* rows the images table may receive
MaxClock  == 1      \* last value of CURRENT_TIMESTAMP
MaxLen    == 4      \* longest generated tag string of SpecTags

Clients == {"c1", "c2"}      \* browsers, each holding one session cookie

----------------------------------------------------------------------------
(* Characters and strings *)

\* the ASCII characters the model uses, in code point order
Ascii ==
  << "\t", " ", "%", ",", ".",
     "A", "B", "C", "D", "E", "F", "G", "H", "I", "J", "K", "L", "M",
     "N", "O", "P", "Q", "R", "S", "T", "U", "V", "W", "X", "Y", "Z",
     "_",
     "a", "b", "c", "d", "e", "f", "g", "h", "i", "j", "k", "l", "m",
     "n", "o", "p", "q", "r", "s", "t", "u", "v", "w", "x", "y", "z" >>

Chars == { Ascii[i] : i \in 1..Len(Ascii) }

\* ord(ch), as the position in Ascii
OrdOf == [ ch \in Chars |-> CHOOSE i \in 1..Len(Ascii) : Ascii[i] = ch ]

Ord(ch) == OrdOf[ch]

IsUpper(ch) == Ord(ch) >= Ord("A") /\ Ord(ch) <= Ord("Z")

LowerOf ==
  [ ch \in Chars |-> IF IsUpper(ch) THEN Ascii[Ord(ch) - Ord("A") + Ord("a")] ELSE ch ]

\* str.lower() on one character
LowerChar(ch) == LowerOf[ch]

\* str.lower()
Lower(s) == [i \in 1..Len(s) |-> LowerChar(s[i])]

\* the characters str.strip() removes
IsSpace(ch) == ch \in {" ", "\t"}

RECURSIVE LStrip(_)
LStrip(s) == IF s # <<>> /\ IsSpace(Head(s)) THEN LStrip(Tail(s)) ELSE s

RECURSIVE RStrip(_)
RStrip(s) ==
  IF s # <<>> /\ IsSpace(s[Len(s)]) THEN RStrip(SubSeq(s, 1, Len(s) - 1)) ELSE s

\* a strip that removes at most one character at each end
StripOnce(s) ==
  LET l == IF s # <<>> /\ IsSpace(Head(s)) THEN Tail(s) ELSE s
  IN  IF l # <<>> /\ IsSpace(l[Len(l)]) THEN SubSeq(l, 1, Len(l) - 1) ELSE l

\* str.strip()
Strip(s) == RStrip(LStrip(s))

Contains(s, ch) == \E i \in 1..Len(s) : s[i] = ch

FirstIndex(s, ch) == CHOOSE i \in 1..Len(s) : s[i] = ch /\ \A j \in 1..(i-1) : s[j] # ch

LastIndex(s, ch) == CHOOSE i \in 1..Len(s) : s[i] = ch /\ \A j \in (i+1)..Len(s) : s[j] # ch

\* str.split(sep): always at least one piece
RECURSIVE Split(_, _)
Split(s, sep) ==
  IF ~Contains(s, sep) THEN << s >>
  ELSE LET i == FirstIndex(s, sep)
       IN  << SubSeq(s, 1, i - 1) >> \o Split(SubSeq(s, i + 1, Len(s)), sep)

\* sep.join(pieces)
RECURSIVE Join(_, _)
Join(pieces, sep) ==
  IF pieces = <<>> THEN <<>>
  ELSE IF Len(pieces) = 1 THEN pieces[1]
  ELSE pieces[1] \o << sep >> \o Join(Tail(pieces), sep)

\* [tag.strip() for tag in tags.split(',') if tag.strip()]
RECURSIVE StripNonEmpty(_)
StripNonEmpty(pieces) ==
  IF pieces = <<>> THEN <<>>
  ELSE LET t == Strip(Head(pieces))
       IN  (IF t # <<>> THEN << t >> ELSE <<>>) \o StripNonEmpty(Tail(pieces))

ProcessTags(tags) == StripNonEmpty(Split(tags, ","))

\* "Process tags - clean and normalize" of upload_image and update_image
NormalizeTags(tags) == IF tags # <<>> THEN Join(ProcessTags(tags), ",") ELSE tags

----------------------------------------------------------------------------
(* File names *)

png  == << "p", "n", "g" >>
jpg  == << "j", "p", "g" >>
jpeg == << "j", "p", "e", "g" >>
gif  == << "g", "i", "f" >>
webp == << "w", "e", "b", "p" >>

ALLOWED_EXTENSIONS == { png, jpg, jpeg, gif, webp }

\* filename.rsplit('.', 1)[1], for a filename that contains a dot
Extension(filename) == SubSeq(filename, LastIndex(filename, ".") + 1, Len(filename))

\* an extension check that reads the piece after the first dot: split('.')[1]
AllowedFileFirstDot(filename) ==
  /\ Contains(filename, ".")
  /\ Lower(Split(filename, ".")[2]) \in ALLOWED_EXTENSIONS

allowed_file(filename) ==
  /\ Contains(filename, ".")
  /\ Lower(Extension(filename)) \in ALLOWED_EXTENSIONS

----------------------------------------------------------------------------
(* SQL LIKE and ordering of text *)

\* text LIKE pattern in SQLite: % matches any run of characters, _ any one
\* character, letters compare without regard to case
RECURSIVE Like(_, _)
Like(text, pattern) ==
  IF pattern = <<>> THEN text = <<>>
  ELSE IF Head(pattern) = "%"
       THEN \/ Like(text, Tail(pattern))
            \/ text # <<>> /\ Like(Tail(text), pattern)
  ELSE /\ text # <<>>
       /\ \/ Head(pattern) = "_"
          \/ LowerChar(Head(pattern)) = LowerChar(Head(text))
       /\ Like(Tail(text), Tail(pattern))

\* f'%{term}%'
Wrap(term) == << "%" >> \o term \o << "%" >>

\* a < b for Python strings: by code point, a proper prefix first
RECURSIVE StrLess(_, _)
StrLess(a, b) ==
  IF b = <<>> THEN FALSE
  ELSE IF a = <<>> THEN TRUE
  ELSE IF Head(a) # Head(b) THEN Ord(Head(a)) < Ord(Head(b))
  ELSE StrLess(Tail(a), Tail(b))

\* sorted(list(S)) for a set of strings
RECURSIVE Sorted(_)
Sorted(S) ==
  IF S = {} THEN <<>>
  ELSE LET m == CHOOSE x \in S : \A y \in S \ {x} : StrLess(x, y)
       IN  << m >> \o Sorted(S \ {m})

Range(f) == { f[i] : i \in DOMAIN f }

----------------------------------------------------------------------------
(* Request inputs *)

ali    == << "a", "l", "i" >>
bob    == << "b", "o", "b" >>
al     == << "a", "l" >>
secret == << "s", "e", "c", "r", "e", "t" >>
hunter == << "h", "u", "n", "t", "e", "r" >>
pw     == << "p", "w" >>

Usernames         == { ali, bob, al }
RegisterPasswords == { secret, pw }
LoginPasswords    == { secret, hunter }
Methods           == { "GET", "POST" }

Cat  == << "C", "a", "t" >>
Dog  == << " ", "D", "o", "g" >>
aCat == << " ", "a", " ", "c", "a", "t", " " >>

UploadTitles       == { Cat, <<>> }
UpdateTitles       == { Dog, << " " >> }
UploadDescriptions == { <<>> }
UpdateDescriptions == { aCat }

\* " a, b ,,c "
TagExample == << " ", "a", ",", " ", "b", " ", ",", ",", "c", " " >>
UploadTags == { << "b", ",", " ", "a", ",", ",", "b", " " >> }
UpdateTags == { << "c", ",", "a" >> }

FileNames ==
  { << "x", ".", "P", "N", "G" >>,
    << "x", ".", "p", "n", "g", ".", "e", "x", "e" >>,
    << "p", "n", "g" >>,
    <<>> }

Searches   == { <<>>, << "c", "a", "t" >>, << "c", "_", "t" >> }
TagFilters == { <<>>, << "a" >> }

ImageIds == 1..(MaxImages + 1)

ProtectedRoutes ==
  { "index", "list", "upload", "user", "tags", "get", "update", "delete" }

----------------------------------------------------------------------------
(* State *)

VARIABLES
  users,      \* rows of table users
  userSeq,    \* AUTOINCREMENT counter of users
  images,     \* rows of table images
  imageSeq,   \* AUTOINCREMENT counter of images
  files,      \* names of the files in UPLOAD_FOLDER
  uuidSeq,    \* number of uuid4() values drawn
  now,        \* CURRENT_TIMESTAMP
  session,    \* the session cookie of each client
  inflight,   \* the request each client has in a handler, past its first step
  resp,       \* the response the last step sent, NoResp when it sent none
  deleted,    \* ids whose delete returned success
  tagIn,      \* SpecTags: the tag string submitted
  tagOut      \* SpecTags: the results of normalizing it again and again

dbVars   == << users, userSeq, images, imageSeq >>
tagVars  == << tagIn, tagOut >>
vars == << users, userSeq, images, imageSeq, files, uuidSeq, now, session,
           inflight, resp, deleted, tagIn, tagOut >>

NoSession == [ anonymous |-> TRUE ]
NoReq     == [ op |-> "none" ]
NoResp    == [ op |-> "none", status |-> 0 ]

\* 'user_id' in session
LoggedIn(c) == session[c] # NoSession

Idle(c) == inflight[c] = NoReq

\* werkzeug generate_password_hash / check_password_hash
generate_password_hash(password) == [ method |-> "scrypt", of |-> password ]
check_password_hash(pwhash, password) == pwhash = generate_password_hash(password)

\* a response: route, status code, the request it answers, body
Response(op, status, rq, body) ==
  [ op |-> op, status |-> status, rq |-> rq, body |-> body ]

Init ==
  /\ users = {}
  /\ userSeq = 0
  /\ images = {}
  /\ imageSeq = 0
  /\ files = {}
  /\ uuidSeq = 0
  /\ now = 0
  /\ session = [ c \in Clients |-> NoSession ]
  /\ inflight = [ c \in Clients |-> NoReq ]
  /\ resp = NoResp
  /\ deleted = {}
  /\ tagIn = <<>>
  /\ tagOut = <<>>

----------------------------------------------------------------------------
(* Auth *)

\* decorated_function of login_required when the session has no user_id:
\* the view function is not called
LoginRequired(c, route) ==
  /\ Idle(c)
  /\ ~LoggedIn(c)
  /\ resp' = Response(route, 302, [ session |-> session[c] ], "login")
  /\ UNCHANGED << dbVars, files, uuidSeq, now, session, inflight, deleted, tagVars >>

\* GET /
Index(c) ==
  /\ Idle(c)
  /\ LoggedIn(c)
  /\ resp' = Response("index", 200, [ session |-> session[c] ], "index.html")
  /\ UNCHANGED << dbVars, files, uuidSeq, now, session, inflight, deleted, tagVars >>

\* a login that only looks the username up
PasswordAcceptedAnyPassword(found, password) == found # {}

\* user and check_password_hash(user[1], password), user the fetched row
PasswordAccepted(found, password) ==
  /\ found # {}
  /\ \A u \in found : check_password_hash(u.password_hash, password)

\* GET, POST /login
Login(c, method, username, password) ==
  /\ Idle(c)
  /\ LET rq    == IF method = "GET" THEN [ method |-> method ]
                  ELSE [ method |-> method, username |-> username, password |-> password ]
         found == { u \in users : u.username = username }
     IN  IF method = "POST" /\ PasswordAccepted(found, password)
         THEN /\ session' = [ session EXCEPT ![c] =
                    [ user_id  |-> (CHOOSE u \in found : TRUE).id,
                      username |-> username ] ]
              /\ resp' = Response("login", 302, rq, "index")
         ELSE /\ session' = session
              /\ resp' = Response("login", 200, rq,
                           IF method = "POST" THEN "Invalid username or password"
                                              ELSE "login.html")
  /\ UNCHANGED << dbVars, files, uuidSeq, now, inflight, deleted, tagVars >>

\* a users table without the UNIQUE constraint: the INSERT never fails
UniqueViolatedNever(username) == FALSE

\* the UNIQUE constraint of users.username: the INSERT raises IntegrityError
UniqueViolated(username) == \E u \in users : u.username = username

\* GET, POST /register
Register(c, method, username, password) ==
  /\ Idle(c)
  /\ LET rq == IF method = "GET" THEN [ method |-> method ]
               ELSE [ method |-> method, username |-> username, password |-> password ]
     IN  IF method = "GET"
         THEN /\ resp' = Response("register", 200, rq, "register.html")
              /\ UNCHANGED << users, userSeq >>
         ELSE IF Len(username) < 3 \/ Len(password) < 6
         THEN /\ resp' = Response("register", 200, rq,
                  "Username must be at least 3 characters and password at least 6 characters")
              /\ UNCHANGED << users, userSeq >>
         ELSE IF UniqueViolated(username)
         THEN /\ resp' = Response("register", 200, rq, "Username already exists")
              /\ UNCHANGED << users, userSeq >>
         ELSE /\ userSeq < MaxUsers
              /\ userSeq' = userSeq + 1
              /\ users' = users \cup
                   { [ id            |-> userSeq + 1,
                       username      |-> username,
                       password_hash |-> generate_password_hash(password) ] }
              /\ resp' = Response("register", 302, rq, "login")
  /\ UNCHANGED << images, imageSeq, files, uuidSeq, now, session, inflight,
                  deleted, tagVars >>

\* GET /logout
Logout(c) ==
  /\ Idle(c)
  /\ session' = [ session EXCEPT ![c] = NoSession ]
  /\ resp' = Response("logout", 302, [ session |-> session[c] ], "login")
  /\ UNCHANGED << dbVars, files, uuidSeq, now, inflight, deleted, tagVars >>

\* GET /api/user
GetCurrentUser(c) ==
  /\ Idle(c)
  /\ LoggedIn(c)
  /\ resp' = Response("user", 200, [ session |-> session[c] ],
               [ id |-> session[c].user_id, username |-> session[c].username ])
  /\ UNCHANGED << dbVars, files, uuidSeq, now, session, inflight, deleted, tagVars >>

----------------------------------------------------------------------------
(* Query / filter *)

\* SELECT ... FROM images WHERE 1=1 [AND (title LIKE ? OR description LIKE ?)]
\* [AND tags LIKE ?]
SelectImages(search, tag_filter) ==
  { r \in images :
      /\ search # <<>> =>
           Like(r.title, Wrap(search)) \/ Like(r.description, Wrap(search))
      /\ tag_filter # <<>> => Like(r.tags, Wrap(tag_filter)) }

\* ORDER BY created_at DESC: every order of the rows that is descending in
\* created_at (rows of one second come in any order)
OrderByCreatedDesc(rows) ==
  { q \in [ 1..Cardinality(rows) -> rows ] :
      /\ \A i, j \in DOMAIN q : i # j => q[i] # q[j]
      /\ \A i, j \in DOMAIN q : i < j => q[i].created_at >= q[j].created_at }

\* the JSON object of one row, as get_images and get_image build it
ImageJson(r) ==
  [ id          |-> r.id,
    filename    |-> r.filename,
    title       |-> r.title,
    description |-> r.description,
    tags        |-> IF r.tags # <<>> THEN ProcessTags(r.tags) ELSE <<>>,
    uploaded_by |-> r.uploaded_by,
    created_at  |-> r.created_at ]

\* the bodies GET /api/images may return
ListResults(search, tag_filter) ==
  { [ i \in DOMAIN q |-> ImageJson(q[i]) ] :
      q \in OrderByCreatedDesc(SelectImages(search, tag_filter)) }

\* GET /api/images
GetImages(c, search, tag_filter) ==
  /\ Idle(c)
  /\ LoggedIn(c)
  /\ \E body \in ListResults(search, tag_filter) :
       resp' = Response("list", 200,
                 [ session |-> session[c], search |-> search, tag |-> tag_filter ], body)
  /\ UNCHANGED << dbVars, files, uuidSeq, now, session, inflight, deleted, tagVars >>

\* SELECT ... FROM images WHERE id = ?
SelectImage(image_id) == { r \in images : r.id = image_id }

\* GET /api/images/<id>
GetImage(c, image_id) ==
  /\ Idle(c)
  /\ LoggedIn(c)
  /\ LET image == SelectImage(image_id)
         rq    == [ session |-> session[c], id |-> image_id ]
     IN  IF image = {}
         THEN resp' = Response("get", 404, rq, "Image not found")
         ELSE resp' = Response("get", 200, rq,
                        ImageJson(CHOOSE r \in image : TRUE))
  /\ UNCHANGED << dbVars, files, uuidSeq, now, session, inflight, deleted, tagVars >>

\* all_tags after the loop over the image ids: rows with empty tags are
\* skipped, the others contribute tag.strip() of every comma-separated piece
AllTags(rows) ==
  UNION { { Strip(t) : t \in Range(Split(r.tags, ",")) } :
            r \in { x \in rows : x.tags # <<>> } }

RECURSIVE Repeat(_, _)
Repeat(x, n) == IF n = 0 THEN <<>> ELSE << x >> \o Repeat(x, n - 1)

RECURSIVE Flatten(_)
Flatten(qs) == IF qs = <<>> THEN <<>> ELSE Head(qs) \o Flatten(Tail(qs))

\* the sorted tags collected in a list instead of a set: one entry per
\* occurrence
SortedTagList(rows) ==
  LET q == Sorted(AllTags(rows))
      Count(t) ==
        Cardinality(UNION { { << r.id, i >> :
                                i \in { j \in DOMAIN Split(r.tags, ",") :
                                          Strip(Split(r.tags, ",")[j]) = t } } :
                            r \in { x \in rows : x.tags # <<>> } })
  IN  Flatten([ i \in DOMAIN q |-> Repeat(q[i], Count(q[i])) ])

\* sorted(list(all_tags))
SortedTags(rows) == Sorted(AllTags(rows))

\* GET /api/tags
GetTags(c) ==
  /\ Idle(c)
  /\ LoggedIn(c)
  /\ resp' = Response("tags", 200, [ session |-> session[c] ], SortedTags(images))
  /\ UNCHANGED << dbVars, files, uuidSeq, now, session, inflight, deleted, tagVars >>

----------------------------------------------------------------------------
(* Image store *)

\* a stored name that does not depend on the uuid drawn
ClientFilename(n, ext) == [ uuid |-> 0, ext |-> ext ]

\* f"{uuid.uuid4()}.{file_ext}": the n-th uuid drawn differs from all before
NewFilename(n, ext) == [ uuid |-> n, ext |-> ext ]

\* POST /upload, up to file.save(filepath)
UploadImage(c, has_file, filename, title, description, tags) ==
  /\ Idle(c)
  /\ LoggedIn(c)
  /\ LET rq == [ has_file |-> has_file, file |-> filename, title |-> title ]
     IN  IF ~has_file \/ filename = <<>>
         THEN /\ resp' = Response("upload", 400, rq, "No file selected")
              /\ UNCHANGED << files, uuidSeq, inflight >>
         ELSE IF title = <<>>
         THEN /\ resp' = Response("upload", 400, rq, "Title is required")
              /\ UNCHANGED << files, uuidSeq, inflight >>
         ELSE IF allowed_file(filename)
         THEN /\ uuidSeq < MaxImages
              /\ uuidSeq' = uuidSeq + 1
              /\ files' = files \cup
                   { NewFilename(uuidSeq + 1, Lower(Extension(filename))) }
              /\ inflight' = [ inflight EXCEPT ![c] =
                   [ op |-> "upload", rq |-> rq, uid |-> session[c].user_id,
                     description |-> description, tags |-> tags,
                     filename |-> NewFilename(uuidSeq + 1, Lower(Extension(filename))) ] ]
              /\ resp' = NoResp
         ELSE /\ resp' = Response("upload", 400, rq, "Invalid file type")
              /\ UNCHANGED << files, uuidSeq, inflight >>
  /\ UNCHANGED << dbVars, now, session, deleted, tagVars >>

\* INTEGER PRIMARY KEY without AUTOINCREMENT: one more than the largest id
\* in the table
RowidAfterLargest(seq, rows) ==
  IF rows = {} THEN 1
  ELSE (CHOOSE m \in { r.id : r \in rows } : \A r \in rows : r.id <= m) + 1

\* INTEGER PRIMARY KEY AUTOINCREMENT: one more than the largest id the table
\* ever held
NextRowid(seq, rows) == seq + 1

\* POST /upload, from "Process tags" to the response
UploadInsert(c) ==
  /\ inflight[c].op = "upload"
  /\ imageSeq' = imageSeq + 1
  /\ images' = images \cup
       { [ id          |-> NextRowid(imageSeq, images),
           filename    |-> inflight[c].filename,
           title       |-> inflight[c].rq.title,
           description |-> inflight[c].description,
           tags        |-> NormalizeTags(inflight[c].tags),
           uploaded_by |-> inflight[c].uid,
           created_at  |-> now ] }
  /\ resp' = Response("upload", 200, inflight[c].rq, "Image uploaded successfully")
  /\ inflight' = [ inflight EXCEPT ![c] = NoReq ]
  /\ UNCHANGED << users, userSeq, files, uuidSeq, now, session, deleted, tagVars >>

\* an ownership test that always passes
OwnedByAnyone(image, uid) == TRUE

\* not (image[...] != session['user_id']), image the fetched row
OwnedBy(image, uid) == \A r \in image : r.uploaded_by = uid

\* PUT /api/images/<id>, up to the normalization of the tags
UpdateImage(c, image_id, title, description, tags) ==
  /\ Idle(c)
  /\ LoggedIn(c)
  /\ LET image == SelectImage(image_id)
         rq == [ uid |-> session[c].user_id, id |-> image_id ]
     IN  IF image = {}
         THEN /\ resp' = Response("update", 404, rq, "Image not found")
              /\ UNCHANGED inflight
         ELSE IF ~OwnedBy(image, session[c].user_id)
         THEN /\ resp' = Response("update", 403, rq, "Unauthorized")
              /\ UNCHANGED inflight
         ELSE IF Strip(title) = <<>>
         THEN /\ resp' = Response("update", 400, rq, "Title is required")
              /\ UNCHANGED inflight
         ELSE /\ inflight' = [ inflight EXCEPT ![c] =
                   [ op |-> "update", rq |-> rq, title |-> Strip(title),
                     description |-> Strip(description),
                     tags |-> NormalizeTags(tags) ] ]
              /\ resp' = NoResp
  /\ UNCHANGED << dbVars, files, uuidSeq, now, session, deleted, tagVars >>

\* PUT /api/images/<id>: UPDATE images SET ... WHERE id = ? and the response
UpdateWrite(c) ==
  /\ inflight[c].op = "update"
  /\ images' = { IF r.id = inflight[c].rq.id
                 THEN [ r EXCEPT !.title = inflight[c].title,
                                 !.description = inflight[c].description,
                                 !.tags = inflight[c].tags ]
                 ELSE r : r \in images }
  /\ resp' = Response("update", 200, inflight[c].rq, "Image updated successfully")
  /\ inflight' = [ inflight EXCEPT ![c] = NoReq ]
  /\ UNCHANGED << users, userSeq, imageSeq, files, uuidSeq, now, session,
                  deleted, tagVars >>

\* DELETE /api/images/<id>, up to the ownership check
DeleteImage(c, image_id) ==
  /\ Idle(c)
  /\ LoggedIn(c)
  /\ LET image == SelectImage(image_id)
         rq == [ uid |-> session[c].user_id, id |-> image_id ]
     IN  IF image = {}
         THEN /\ resp' = Response("delete", 404, rq, "Image not found")
              /\ UNCHANGED inflight
         ELSE IF ~OwnedBy(image, session[c].user_id)
         THEN /\ resp' = Response("delete", 403, rq, "Unauthorized")
              /\ UNCHANGED inflight
         ELSE /\ inflight' = [ inflight EXCEPT ![c] =
                   [ op |-> "delete", pc |-> "row", rq |-> rq,
                     filename |-> (CHOOSE r \in image : TRUE).filename ] ]
              /\ resp' = NoResp
  /\ UNCHANGED << dbVars, files, uuidSeq, now, session, deleted, tagVars >>

\* DELETE /api/images/<id>: DELETE FROM images WHERE id = ? and the commit
DeleteRow(c) ==
  /\ inflight[c].op = "delete"
  /\ inflight[c].pc = "row"
  /\ images' = { r \in images : r.id # inflight[c].rq.id }
  /\ inflight' = [ inflight EXCEPT ![c].pc = "file" ]
  /\ resp' = NoResp
  /\ UNCHANGED << users, userSeq, imageSeq, files, uuidSeq, now, session,
                  deleted, tagVars >>

\* a handler that lets the exception of os.remove reach the client
DeleteStatusPropagates(unlink) == IF unlink = "error" THEN 500 ELSE 200

\* the status of the delete response: the except clause only prints
DeleteStatus(unlink) == 200

\* DELETE /api/images/<id>: the try block and the response; os.remove may raise
DeleteFile(c, raises) ==
  /\ inflight[c].op = "delete"
  /\ inflight[c].pc = "file"
  /\ LET filename == inflight[c].filename
         unlink == IF filename \notin files THEN "absent"
                   ELSE IF raises THEN "error" ELSE "removed"
     IN  /\ files' = IF unlink = "removed" THEN files \ { filename } ELSE files
         /\ resp' = Response("delete", DeleteStatus(unlink),
                      [ uid |-> inflight[c].rq.uid, id |-> inflight[c].rq.id,
                        filename |-> filename, unlink |-> unlink ],
                      "Image deleted successfully")
         /\ deleted' = IF DeleteStatus(unlink) = 200
                       THEN deleted \cup { inflight[c].rq.id } ELSE deleted
  /\ inflight' = [ inflight EXCEPT ![c] = NoReq ]
  /\ UNCHANGED << dbVars, uuidSeq, now, session, tagVars >>

\* a second of CURRENT_TIMESTAMP passes
Tick ==
  /\ now < MaxClock
  /\ now' = now + 1
  /\ resp' = NoResp
  /\ UNCHANGED << dbVars, files, uuidSeq, session, inflight, deleted, tagVars >>

----------------------------------------------------------------------------
(* Specifications *)

AuthStep ==
  \/ \E c \in Clients, m \in Methods, u \in Usernames, p \in LoginPasswords :
        Login(c, m, u, p)
  \/ \E c \in Clients, m \in Methods, u \in Usernames, p \in RegisterPasswords :
        Register(c, m, u, p)
  \/ \E c \in Clients : Logout(c)
  \/ \E c \in Clients, r \in ProtectedRoutes : LoginRequired(c, r)

ReadStep ==
  \/ \E c \in Clients : Index(c)
  \/ \E c \in Clients : GetCurrentUser(c)
  \/ \E c \in Clients, s \in Searches, t \in TagFilters : GetImages(c, s, t)
  \/ \E c \in Clients, i \in ImageIds : GetImage(c, i)
  \/ \E c \in Clients : GetTags(c)

StoreStep ==
  \/ \E c \in Clients, f \in FileNames, t \in UploadTitles,
        d \in UploadDescriptions, g \in UploadTags :
        \E h \in (IF f = <<>> THEN BOOLEAN ELSE { TRUE }) : UploadImage(c, h, f, t, d, g)
  \/ \E c \in Clients : UploadInsert(c)
  \/ \E c \in Clients, i \in ImageIds, t \in UpdateTitles,
        d \in UpdateDescriptions, g \in UpdateTags : UpdateImage(c, i, t, d, g)
  \/ \E c \in Clients : UpdateWrite(c)
  \/ \E c \in Clients, i \in ImageIds : DeleteImage(c, i)
  \/ \E c \in Clients : DeleteRow(c)
  \/ \E c \in Clients, raises \in BOOLEAN : DeleteFile(c, raises)
  \/ Tick

\* the application from its first start
Next == AuthStep \/ ReadStep \/ StoreStep

Spec == Init /\ [][Next]_vars

\* the image store once ali and bob have registered and both clients have
\* logged in, c2 last
InitStore ==
  /\ users = { [ id |-> 1, username |-> ali, password_hash |-> generate_password_hash(secret) ],
               [ id |-> 2, username |-> bob, password_hash |-> generate_password_hash(secret) ] }
  /\ userSeq = 2
  /\ session \in { [ c \in Clients |-> IF c = "c1" THEN [ user_id |-> 1, username |-> ali ] ELSE s2 ] :
                     s2 \in { [ user_id |-> 1, username |-> ali ],
                              [ user_id |-> 2, username |-> bob ] } }
  /\ resp = Response("login", 302,
               [ method |-> "POST", username |-> session["c2"].username,
                 password |-> secret ], "index")
  /\ Init!3 /\ Init!4 /\ Init!5 /\ Init!6 /\ Init!7
  /\ Init!9 /\ Init!11 /\ Init!12 /\ Init!13

NextStore == ReadStep \/ StoreStep

SpecStore == InitStore /\ [][NextStore]_vars

\* registration, login and logout from the first start, with the requests that
\* read
NextAuth == AuthStep \/ ReadStep

SpecAuth == Init /\ [][NextAuth]_vars

----------------------------------------------------------------------------
(* Specification of tag normalization alone *)

TagAlphabet == { " ", ",", "a", "b" }

TagStrings ==
  { TagExample } \cup UNION { [ 1..n -> TagAlphabet ] : n \in 0..MaxLen }

InitTags ==
  /\ Init!1 /\ Init!2 /\ Init!3 /\ Init!4 /\ Init!5 /\ Init!6 /\ Init!7
  /\ Init!8 /\ Init!9 /\ Init!10 /\ Init!11
  /\ tagIn \in TagStrings
  /\ tagOut = <<>>

\* one more pass of "Process tags", over the submitted string or over the
\* result of the last pass
Normalize ==
  /\ Len(tagOut) < 2
  /\ tagOut' = Append(tagOut, NormalizeTags(IF tagOut = <<>> THEN tagIn
                                            ELSE tagOut[Len(tagOut)]))
  /\ UNCHANGED << users, userSeq, images, imageSeq, files, uuidSeq, now,
                  session, inflight, resp, deleted, tagIn >>

NextTags == Normalize

SpecTags == InitTags /\ [][NextTags]_vars

----------------------------------------------------------------------------
(* Properties *)

\* text contains term, letters compared without regard to case
ContainsNoCase(text, term) ==
  \E k \in 0..(Len(text) - Len(term)) :
     Lower(SubSeq(text, k + 1, k + Len(term))) = Lower(term)

\* the file name ends in a dot followed by an allowed extension, in any case
HasAllowedExtension(f) ==
  \E k \in 1..Len(f) :
     /\ f[k] = "."
     /\ \A j \in (k + 1)..Len(f) : f[j] # "."
     /\ Lower(SubSeq(f, k + 1, Len(f))) \in { png, jpg, jpeg, gif, webp }

\* the tags of a stored tag string: its maximal comma-free pieces
TagsIn(str) ==
  { t \in { SubSeq(str, i, j) : i \in 1..Len(str), j \in 1..Len(str) } :
      /\ t # <<>>
      /\ ~Contains(t, ",")
      /\ \E i \in 1..Len(str) :
            /\ i + Len(t) - 1 <= Len(str)
            /\ SubSeq(str, i, i + Len(t) - 1) = t
            /\ i = 1 \/ str[i - 1] = ","
            /\ i + Len(t) - 1 = Len(str) \/ str[i + Len(t)] = "," }

\* C1: an update or delete request for an existing image, made under a session
\* of another user than the uploader, is answered 403 and changes neither the
\* rows nor the files; a row changes or goes only in a step of an update or
\* delete request of its uploader.
OnlyOwnerChangesImage ==
  [][ /\ \A r \in images :
           ( /\ resp'.op \in { "update", "delete" }
             /\ resp'.rq.id = r.id
             /\ resp'.rq.uid # r.uploaded_by )
           => ( resp'.status = 403 /\ images' = images /\ files' = files )
      /\ \A r \in images :
           r \notin images'
           => \E c \in Clients :
                 /\ inflight[c].op \in { "update", "delete" }
                 /\ inflight'[c] # inflight[c]
                 /\ inflight[c].rq.id = r.id
                 /\ inflight[c].rq.uid = r.uploaded_by
    ]_vars

NonOwnerRefused ==
  /\ resp.op = "delete"
  /\ resp.status = 403
  /\ \E r \in images : r.id = resp.rq.id /\ r.uploaded_by # resp.rq.uid /\ r.filename \in files

\* C2, as claimed: every POST /register with a username of a stored user is
\* answered "Username already exists" and leaves the users unchanged, and no
\* two users share a username.
TakenUsernameAlwaysDuplicateError ==
  [][ /\ ( /\ resp'.op = "register"
           /\ resp'.rq.method = "POST"
           /\ \E u \in users : u.username = resp'.rq.username )
         => ( resp'.body = "Username already exists" /\ users' = users )
      /\ \A u, v \in users' : u.username = v.username => u = v
    ]_vars

\* C2, amended: a POST /register with a username of a stored user leaves the
\* users unchanged; it is answered "Username already exists" when the password
\* has at least 6 characters and with the length message otherwise; no two
\* users share a username.
TakenUsernameRejected ==
  [][ /\ ( /\ resp'.op = "register"
           /\ resp'.rq.method = "POST"
           /\ \E u \in users : u.username = resp'.rq.username )
         => /\ users' = users
            /\ resp'.status = 200
            /\ resp'.body =
                 IF Len(resp'.rq.password) >= 6
                 THEN "Username already exists"
                 ELSE "Username must be at least 3 characters and password at least 6 characters"
      /\ \A u, v \in users' : u.username = v.username => u = v
    ]_vars

DuplicateUsernameAnswered ==
  /\ resp.op = "register"
  /\ resp.body = "Username already exists"
  /\ \E u \in users : u.username = resp.rq.username

\* C3: an image whose delete returned success is in no result of the list,
\* whatever the filters, and its id selects no row, so get answers 404.
DeletedStaysGone ==
  \A id \in deleted :
     /\ \A s \in Searches, t \in TagFilters :
           \A body \in ListResults(s, t) : \A i \in DOMAIN body : body[i].id # id
     /\ \A r \in images : r.id # id
     /\ (resp.op = "get" /\ resp.rq.id = id) => resp.status = 404
     /\ resp.op = "list" => \A i \in DOMAIN resp.body : resp.body[i].id # id

GetAfterDelete ==
  /\ resp.op = "get"
  /\ resp.status = 404
  /\ resp.rq.id \in deleted
  /\ images # {}

\* C4: the filename of every image row names a file of the upload directory,
\* and no two rows have the same filename, in every state, the ones between
\* the file step and the row step of an upload or a delete included.
RowsHaveTheirFile ==
  /\ \A r \in images : r.filename \in files
  /\ \A r1, r2 \in images : r1.filename = r2.filename => r1 = r2

UploadAndDeleteHalfway ==
  \E c1, c2 \in Clients :
     /\ inflight[c1].op = "upload"
     /\ inflight[c2].op = "delete"
     /\ inflight[c2].pc = "file"
     /\ inflight[c2].filename \in files
     /\ inflight[c1].filename \in files
     /\ \A r \in images : r.filename \notin { inflight[c1].filename, inflight[c2].filename }

\* C5: normalizing a normalized tag string gives the same string, and
\* " a, b ,,c " normalizes to "a,b,c".
NormalizeIdempotent ==
  /\ Len(tagOut) = 2 => tagOut[2] = tagOut[1]
  /\ (tagIn = TagExample /\ Len(tagOut) >= 1)
        => tagOut[1] = << "a", ",", "b", ",", "c" >>

NormalizedTwice ==
  /\ Len(tagOut) = 2
  /\ tagOut[1] # tagIn
  /\ tagOut[1] # <<>>

\* C6: an upload without a title, or of a file whose name does not end in a
\* dot and an allowed extension, is answered 400 and creates neither a row nor
\* a file; no such upload gets as far as saving its file.
BadUploadRejected ==
  [][ /\ ( /\ resp'.op = "upload"
           /\ resp'.rq.title = <<>> \/ ~HasAllowedExtension(resp'.rq.file) )
         => ( resp'.status = 400 /\ images' = images /\ files' = files )
      /\ \A c \in Clients :
           inflight'[c].op = "upload"
           => ( inflight'[c].rq.title # <<>> /\ HasAllowedExtension(inflight'[c].rq.file) )
    ]_vars

DoubleExtensionRejected ==
  /\ resp.op = "upload"
  /\ resp.status = 400
  /\ resp.rq.title # <<>>
  /\ resp.rq.file = << "x", ".", "p", "n", "g", ".", "e", "x", "e" >>

\* C7: every record of a list for a search term has the term in its title or
\* in its description, letters compared without regard to case.
SearchResultsContainTerm ==
  ( resp.op = "list" /\ resp.rq.search # <<>> )
  => \A i \in DOMAIN resp.body :
        \/ ContainsNoCase(resp.body[i].title, resp.rq.search)
        \/ ContainsNoCase(resp.body[i].description, resp.rq.search)

\* C8: a delete whose os.remove raised is answered 200; the row is gone and the
\* file is still in the upload directory.
FailedUnlinkSwallowed ==
  ( /\ resp.op = "delete"
    /\ resp.status \notin { 403, 404 }
    /\ resp.rq.unlink = "error" )
  => /\ resp.status = 200
     /\ \A r \in images : r.id # resp.rq.id
     /\ resp.rq.filename \in files

UnlinkFailed ==
  /\ resp.op = "delete"
  /\ resp.status = 200
  /\ resp.rq.unlink = "error"

TagsSortedUnique ==
  resp.op = "tags"
  => /\ \A i, j \in DOMAIN resp.body : i < j => StrLess(resp.body[i], resp.body[j])
     /\ Range(resp.body) = UNION { TagsIn(r.tags) : r \in images }

TagsOfTwoImages ==
  /\ resp.op = "tags"
  /\ Len(resp.body) = 3
  /\ \E r1, r2 \in images : r1 # r2 /\ TagsIn(r1.tags) \cap TagsIn(r2.tags) # {}
  /\ \E r \in images : Len(Split(r.tags, ",")) > Cardinality(TagsIn(r.tags))

====
